---- MODULE Spec2Model ----
(***************************************************************************)
(* Model of the fishing_map core: the data acquisition layer (fetchAll,    *)
(* fetchWeather, fetchTides, processWeather, processTides, the fallback    *)
(* generators) and the scoring engine (FishingEngine).                     *)
(*                                                                         *)
(* Units.  JavaScript numbers are modelled as exact decimals:              *)
(*   temperatures and wind speeds  : tenths (780 = 78.0)                   *)
(*   precipitation                 : hundredths of an inch                 *)
(*   hourly pressure samples       : tenths of hPa                         *)
(*   a day's rounded pressure      : whole hPa                             *)
(*   sub-scores, totals and scores : tenths of a point                     *)
(*   wind direction                : whole degrees                         *)
(* Strings that the code slices are sequences of one-character strings.    *)
(***************************************************************************)
EXTENDS Integers, Sequences, FiniteSets, TLC

VARIABLES
    today,          \* the Date that `new Date()` yields
    pc,             \* fetchAll: "idle", "awaiting", "done"
    wState,         \* fetchWeather: idle, inflight, decoding, fulfilled, rejected
    wBody,          \* <<payload>> once res.json() has resolved
    wValue,         \* <<WeatherDay[]>> once fetchWeather has fulfilled
    wErr,           \* message fetchWeather rejected with
    tState,         \* fetchTides: idle, inflight, decoding, fulfilled, rejected
    tBody,          \* <<body>> once res.json() has resolved
    tValue,         \* <<schedule>> once fetchTides has fulfilled
    tErr,           \* message fetchTides rejected with
    allState,       \* Promise.all: "none", "pending", "fulfilled", "rejected"
    allErr,         \* reason Promise.all rejected with
    result,         \* <<FetchResult>> once fetchAll has returned
    wRequests,      \* fetch() calls issued to the forecast feed
    tRequests,      \* fetch() calls issued to the tide feed
    fbWeatherCalls, \* invocations of fallbackWeather()
    fbTidesCalls,   \* invocations of fallbackTides()
    data,           \* processWeather: the raw payload
    days,           \* processWeather: <<WeatherDay[]>> once applied
    spot,           \* rateSpot: the location
    conditions,     \* rateSpot: the day conditions
    selectedSpecies,\* rateSpot: the species filter
    rated,          \* rateSpot: <<outcome>> once applied
    noaaPredictions,\* processTides: the raw prediction rows
    tideSchedule,   \* processTides: <<schedule>> once applied
    called,         \* the engine function applied on its own, "none" otherwise
    argument,       \* its numeric argument when it takes a bare number
    returned,       \* <<value>> once that function has returned
    fishingSpots,   \* AppProvider: the catalog FISHING_SPOTS it was built with
    dataStatus,     \* AppProvider: "loading", "ok", "error"
    weatherDays,    \* AppProvider: WeatherDay[]
    tidesByDate,    \* AppProvider: the tide schedule
    selectedDay,    \* AppProvider: index of the selected day, 0-based
    selectedSpot    \* AppProvider: <<>> is null, <<s>> the SelectedSpot s

vars == <<today, pc, wState, wBody, wValue, wErr, tState, tBody, tValue, tErr,
          allState, allErr, result, wRequests, tRequests, fbWeatherCalls,
          fbTidesCalls, data, days, spot, conditions, selectedSpecies, rated,
          noaaPredictions, tideSchedule, called, argument, returned,
          fishingSpots, dataStatus, weatherDays, tidesByDate, selectedDay,
          selectedSpot>>

fetchVars == <<today, pc, wState, wBody, wValue, wErr, tState, tBody, tValue,
               tErr, allState, allErr, result, wRequests, tRequests,
               fbWeatherCalls, fbTidesCalls>>
weatherVars == <<data, days>>
rateVars == <<spot, conditions, selectedSpecies, rated>>
tideVars == <<noaaPredictions, tideSchedule>>
scoreVars == <<called, argument, returned>>
appVars == <<fishingSpots, dataStatus, weatherDays, tidesByDate, selectedDay,
             selectedSpot>>
pureVars == <<tideVars, scoreVars, appVars>>

----------------------------------------------------------------------------
(* Generic helpers *)

Min(a, b) == IF a <= b THEN a ELSE b
Max(a, b) == IF a >= b THEN a ELSE b
Abs(a) == IF a >= 0 THEN a ELSE -a

\* Math.round on the rational num/den (den > 0): floor(x + 0.5), ties go up.
MathRound(num, den) == (2 * num + den) \div (2 * den)

RECURSIVE SumSeq(_)
SumSeq(s) == IF s = <<>> THEN 0 ELSE Head(s) + SumSeq(Tail(s))

\* Array.prototype.slice / String.prototype.slice (from, to) on a 0-indexed
\* value held as a 1-indexed sequence: a negative index counts from the end,
\* both ends are clipped to the length.
SliceIndex(k, len) == IF k < 0 THEN Max(len + k, 0) ELSE Min(k, len)
Slice(s, from, to) ==
    LET lo == SliceIndex(from, Len(s))
        hi == SliceIndex(to, Len(s))
    IN  IF hi <= lo THEN <<>> ELSE SubSeq(s, lo + 1, hi)
SliceFrom(s, from) == Slice(s, from, Len(s))

\* String.prototype.indexOf for a one-character needle: 0-based, -1 if absent.
RECURSIVE IndexFrom(_, _, _)
IndexFrom(s, ch, i) ==
    IF i > Len(s) THEN -1
    ELSE IF s[i] = ch THEN i - 1 ELSE IndexFrom(s, ch, i + 1)
IndexOf(s, ch) == IndexFrom(s, ch, 1)

----------------------------------------------------------------------------
(* Program constants and encodings *)

FORECAST_DAYS == 7          \* CONFIG.FORECAST_DAYS
HoursPerDay == 24           \* processWeather: h24 = h0 + 24
DefaultPressure == 1013     \* processWeather: average when no sample is left
NullNumber == -1            \* encoding of `null` in (number | null)[]
NaN == -999999              \* encoding of NaN (parseInt / parseFloat)
NullError == <<>>           \* FetchResult.error = null

DigitChars == <<"0", "1", "2", "3", "4", "5", "6", "7", "8", "9">>
IsDigit(c) == \E k \in 1..10 : DigitChars[k] = c
DigitVal(c) == (CHOOSE k \in 1..10 : DigitChars[k] = c) - 1
TwoDigits(k) == <<DigitChars[(k \div 10) + 1], DigitChars[(k % 10) + 1]>>

\* First day number of each month from June 2024 to June 2025, where day 0 is
\* 2024-06-01
MonthStarts == <<0, 30, 61, 92, 122, 153, 183, 214, 245, 273, 304, 334, 365>>

\* The text "YYYY-MM-DD" of day number n (0 <= n < 365)
DateToISO(n) ==
    LET m     == CHOOSE k \in 1..12 : MonthStarts[k] <= n /\ n < MonthStarts[k + 1]
        month == ((m + 4) % 12) + 1
        dom   == n - MonthStarts[m] + 1
        year  == IF m <= 7 THEN <<"2", "0", "2", "4">> ELSE <<"2", "0", "2", "5">>
    IN  year \o <<"-">> \o TwoDigits(month) \o <<"-">> \o TwoDigits(dom)

\* A Date is kept as its local calendar day, its local minute of the day and
\* the time zone of the environment.  Local time is UTC plus UTCOffset minutes:
\* America/New_York leaves daylight time on 2024-11-03 (day 155) and enters it
\* on 2025-03-09 (day 281), both at 02:00 local time.
UTCOffset(date) ==
    IF date.zone = "UTC" THEN 0
    ELSE IF date.day < 155 \/ (date.day = 155 /\ date.minute < 120) THEN -240
    ELSE IF date.day < 281 \/ (date.day = 281 /\ date.minute < 120) THEN -300
    ELSE -240

\* Date.prototype.setDate(getDate() + k): the local day moves, the local time of
\* day stays
SetDate(date, k) == [date EXCEPT !.day = @ + k]

\* Date.prototype.toISOString().slice(0, 10): the calendar date in UTC
toISODate(date) ==
    DateToISO(date.day + ((date.minute - UTCOffset(date)) \div 1440))

----------------------------------------------------------------------------
(* src/api/processWeather.ts *)

NotNull(p) == p # NullNumber

\* hourly.surface_pressure[k] ?? dflt, both as rationals <<num, den>> in tenths:
\* an index past the end yields undefined, which ?? treats like null.
SampleOr(sp, k, dflt) ==
    IF k + 1 <= Len(sp) /\ sp[k + 1] # NullNumber THEN <<sp[k + 1], 1>> ELSE dflt

\* A variant that passes a null precipitation through
PrecipKeepNull(p) == p

\* precipitation_sum[i] ?? 0
PrecipOrZero(p) == IF p = NullNumber THEN 0 ELSE p

\* A variant that reads every day from the start of the hourly array
WindowStartBug(i) == 0
WindowStart(i) == i * HoursPerDay

\* Array.prototype.filter((p) => p !== null)
FilterNulls(s) == SelectSeq(s, NotNull)

\* The trend threshold of 1.5 hPa, in tenths
TrendThreshold == 15

\* A variant whose comparisons include the threshold itself
pressureTrendInclusive(diffNum, diffDen) ==
    IF diffNum <= -TrendThreshold * diffDen THEN "falling"
    ELSE IF diffNum >= TrendThreshold * diffDen THEN "rising"
    ELSE "stable"

\* let pressureTrend = 'stable'; if (diff > 1.5) ...; if (diff < -1.5) ...
\* for diff = diffNum / diffDen tenths, diffDen > 0
pressureTrend(diffNum, diffDen) ==
    IF diffNum < -TrendThreshold * diffDen THEN "falling"
    ELSE IF diffNum > TrendThreshold * diffDen THEN "rising"
    ELSE "stable"

\* One iteration of the loop body of processWeather, for day index i (0-based).
ProcessDay(d, i) ==
    LET sp        == d.hourly.surface_pressure
        h0        == WindowStart(i)
        h24       == h0 + HoursPerDay
        pressures == FilterNulls(Slice(sp, h0, h24))
        avg       == IF Len(pressures) > 0
                     THEN <<SumSeq(pressures), Len(pressures)>>
                     ELSE <<DefaultPressure * 10, 1>>
        morning   == SampleOr(sp, h0 + 6, avg)
        evening   == SampleOr(sp, h0 + 18, avg)
        \* diff = evening - morning as the rational diffNum / diffDen (tenths)
        diffNum   == evening[1] * morning[2] - morning[1] * evening[2]
        diffDen   == evening[2] * morning[2]
        trend     == pressureTrend(diffNum, diffDen)
    IN  [ date          |-> d.daily.time[i + 1],
          tempMax       |-> d.daily.temperature_2m_max[i + 1],
          tempMin       |-> d.daily.temperature_2m_min[i + 1],
          precipitation |-> PrecipOrZero(d.daily.precipitation_sum[i + 1]),
          windSpeed     |-> d.daily.wind_speed_10m_max[i + 1],
          windDir       |-> d.daily.wind_direction_10m_dominant[i + 1],
          weatherCode   |-> d.daily.weather_code[i + 1],
          pressure      |-> MathRound(avg[1], 10 * avg[2]),
          pressureTrend |-> trend ]

processWeather(d) == [i \in 1..Len(d.daily.time) |-> ProcessDay(d, i - 1)]

----------------------------------------------------------------------------
(* fallbackWeather.ts, fallbackTides.ts (src/unnamed/part_023) *)

fallbackWeather(now) ==
    [i \in 1..FORECAST_DAYS |->
        [ date          |-> toISODate(SetDate(now, i - 1)),
          tempMax       |-> 780,
          tempMin       |-> 650,
          precipitation |-> 0,
          windSpeed     |-> 90,
          windDir       |-> 90,
          weatherCode   |-> 1,
          pressure      |-> 1016,
          pressureTrend |-> "stable" ]]

EmptySchedule == [k \in {} |-> <<>>]
Put(f, k, v) == [x \in (DOMAIN f) \cup {k} |-> IF x = k THEN v ELSE f[x]]

HourInRange(t) == t.hour >= 0 /\ t.hour < 24

\* The four events of day index d; hours are kept in hundredths until floored.
FallbackEvents(d) ==
    LET shift == (d * 83) % 2400
        h0    == (600 + shift) % 2400
    IN  SelectSeq(
          << [hour |-> h0 \div 100,                   minute |-> 0,  height |-> 1100, type |-> "H"],
             [hour |-> ((h0 + 600) % 2400) \div 100,  minute |-> 20, height |-> -100, type |-> "L"],
             [hour |-> ((h0 + 1200) % 2400) \div 100, minute |-> 45, height |-> 900,  type |-> "H"],
             [hour |-> ((h0 + 1800) % 2400) \div 100, minute |-> 55, height |-> 0,    type |-> "L"] >>,
          HourInRange)

RECURSIVE FallbackTidesLoop(_, _, _)
FallbackTidesLoop(now, d, tides) ==
    IF d >= FORECAST_DAYS THEN tides
    ELSE FallbackTidesLoop(now, d + 1,
            Put(tides, toISODate(SetDate(now, d)), FallbackEvents(d)))

fallbackTides(now) == FallbackTidesLoop(now, 0, EmptySchedule)

----------------------------------------------------------------------------
(* src/api/processTides.ts *)

\* Number of leading blanks (isSpace) or leading digits (otherwise) of s
RECURSIVE SpanLen(_, _)
SpanLen(s, isSpace) ==
    IF s = <<>> THEN 0
    ELSE IF (IF isSpace THEN Head(s) = " " ELSE IsDigit(Head(s)))
         THEN 1 + SpanLen(Tail(s), isSpace) ELSE 0

\* Value of a sequence of digit characters
RECURSIVE DigitsValue(_, _)
DigitsValue(s, acc) ==
    IF s = <<>> THEN acc ELSE DigitsValue(Tail(s), 10 * acc + DigitVal(Head(s)))

\* parseInt(s, 10): leading blanks, an optional sign, then the longest run of
\* digits; NaN when there is no digit.
parseInt(s) ==
    LET s1   == SliceFrom(s, SpanLen(s, TRUE))
        neg  == s1 # <<>> /\ Head(s1) = "-"
        s2   == IF s1 # <<>> /\ Head(s1) \in {"-", "+"} THEN Tail(s1) ELSE s1
        n    == SpanLen(s2, FALSE)
    IN  IF n = 0 THEN NaN
        ELSE (IF neg THEN -1 ELSE 1) * DigitsValue(Slice(s2, 0, n), 0)

\* parseFloat(s) in thousandths: leading blanks, an optional sign, digits, an
\* optional fraction (three fractional digits are kept); NaN when no digit.
parseFloat(s) ==
    LET s1   == SliceFrom(s, SpanLen(s, TRUE))
        neg  == s1 # <<>> /\ Head(s1) = "-"
        s2   == IF s1 # <<>> /\ Head(s1) \in {"-", "+"} THEN Tail(s1) ELSE s1
        n    == SpanLen(s2, FALSE)
        rest == SliceFrom(s2, n)
        frac == IF rest # <<>> /\ Head(rest) = "."
                THEN Slice(Tail(rest), 0, SpanLen(Tail(rest), FALSE)) ELSE <<>>
        f3   == Slice(frac \o <<"0", "0", "0">>, 0, 3)
    IN  IF n = 0 /\ frac = <<>> THEN NaN
        ELSE (IF neg THEN -1 ELSE 1)
             * (1000 * DigitsValue(Slice(s2, 0, n), 0) + DigitsValue(f3, 0))

\* A variant that starts a new list for every row instead of appending
ProcessPredictionOverwrite(byDate, p) ==
    LET spaceIdx == IndexOf(p.t, " ")
        timePart == SliceFrom(p.t, spaceIdx + 1)
        colonIdx == IndexOf(timePart, ":")
    IN  Put(byDate, Slice(p.t, 0, spaceIdx),
            << [hour   |-> parseInt(Slice(timePart, 0, colonIdx)),
                minute |-> parseInt(SliceFrom(timePart, colonIdx + 1)),
                height |-> parseFloat(p.v), type |-> p.type] >>)

\* One iteration of the loop of processTides: parse p and append it to its date.
ProcessPrediction(byDate, p) ==
    LET spaceIdx == IndexOf(p.t, " ")
        datePart == Slice(p.t, 0, spaceIdx)
        timePart == SliceFrom(p.t, spaceIdx + 1)
        colonIdx == IndexOf(timePart, ":")
        hour     == parseInt(Slice(timePart, 0, colonIdx))
        minute   == parseInt(SliceFrom(timePart, colonIdx + 1))
        ev       == [hour |-> hour, minute |-> minute,
                     height |-> parseFloat(p.v), type |-> p.type]
        prev     == IF datePart \in DOMAIN byDate THEN byDate[datePart] ELSE <<>>
    IN  Put(byDate, datePart, Append(prev, ev))

RECURSIVE ProcessTidesLoop(_, _)
ProcessTidesLoop(byDate, predictions) ==
    IF predictions = <<>> THEN byDate
    ELSE ProcessTidesLoop(ProcessPrediction(byDate, Head(predictions)),
                          Tail(predictions))

processTides(predictions) == ProcessTidesLoop(EmptySchedule, predictions)

----------------------------------------------------------------------------
(* src/engine.ts: FishingEngine *)

\* A variant whose band limits belong to the band below them
scoreWindInclusive(mph) ==
    IF mph <= 50 THEN 250
    ELSE IF mph <= 100 THEN 200
    ELSE IF mph <= 150 THEN 130
    ELSE IF mph <= 200 THEN 60
    ELSE IF mph <= 250 THEN 20
    ELSE 0

scoreWind(mph) ==
    IF mph < 50 THEN 250
    ELSE IF mph < 100 THEN 200
    ELSE IF mph < 150 THEN 130
    ELSE IF mph < 200 THEN 60
    ELSE IF mph < 250 THEN 20
    ELSE 0

trendBonus == [rising |-> 40, stable |-> 10, falling |-> -60]

\* A variant that returns base + bonus without clamping it
scorePressureUnclamped(hPa, trend) ==
    (IF hPa >= 1023 THEN 210
     ELSE IF hPa >= 1015 THEN 170
     ELSE IF hPa >= 1008 THEN 110
     ELSE IF hPa >= 1000 THEN 60
     ELSE 20) + trendBonus[trend]

scorePressure(hPa, trend) ==
    LET base == IF hPa >= 1023 THEN 210
                ELSE IF hPa >= 1015 THEN 170
                ELSE IF hPa >= 1008 THEN 110
                ELSE IF hPa >= 1000 THEN 60
                ELSE 20
    IN  Max(0, Min(250, base + trendBonus[trend]))

\* spot.tidePreference === 'incoming' ? t.type === 'H' : t.type === 'L'
IsPreferred(t, sp) ==
    IF sp.tidePreference = "incoming" THEN t.type = "H" ELSE t.type = "L"

IsDawn(t) == t.hour >= 5 /\ t.hour <= 9
IsDusk(t) == t.hour >= 16 /\ t.hour <= 20

\* A variant that takes an event of either type inside a prime window
primeTideBonusAnyType(tides, sp) ==
    IF \E k \in 1..Len(tides) : IsDawn(tides[k]) \/ IsDusk(tides[k])
    THEN 100 ELSE 0

\* A variant that wants every preferred event inside a prime window
primeTideBonusEvery(tides, sp) ==
    IF /\ \E k \in 1..Len(tides) : IsPreferred(tides[k], sp)
       /\ \A k \in 1..Len(tides) :
             IsPreferred(tides[k], sp) => (IsDawn(tides[k]) \/ IsDusk(tides[k]))
    THEN 100 ELSE 0

primeTideBonus(tides, sp) ==
    IF \E k \in 1..Len(tides) :
          IsPreferred(tides[k], sp) /\ (IsDawn(tides[k]) \/ IsDusk(tides[k]))
    THEN 100 ELSE 0

scoreTides(tides, sp) ==
    IF Len(tides) = 0 THEN 140
    ELSE LET activityScore   == Min(80, Len(tides) * 20)
             hasPreferred    == \E k \in 1..Len(tides) : IsPreferred(tides[k], sp)
             preferenceScore == IF hasPreferred THEN 120 ELSE 50
             primeBonus      == primeTideBonus(tides, sp)
         IN  Min(300, activityScore + preferenceScore + primeBonus)

\* Water-temperature tolerance per species, in tenths of a degree
ranges ==
    ( "tarpon"         :> [min |-> 700, optimal |-> 820, max |-> 940] ) @@
    ( "snook"          :> [min |-> 580, optimal |-> 750, max |-> 900] ) @@
    ( "redfish"        :> [min |-> 480, optimal |-> 700, max |-> 880] ) @@
    ( "black drum"     :> [min |-> 450, optimal |-> 680, max |-> 850] ) @@
    ( "speckled trout" :> [min |-> 450, optimal |-> 680, max |-> 820] )

Species == DOMAIN ranges

\* A variant that scores by the distance from optimal at every temperature
scoreTemperatureNoRange(airTempF, species) ==
    10 * MathRound(20000 - 75 * Abs(airTempF - 30 - ranges[species].optimal), 1000)

scoreTemperature(airTempF, species) ==
    LET waterTempF == airTempF - 30
        r          == ranges[species]
    IN  IF waterTempF < r.min \/ waterTempF > r.max
        THEN LET overshoot == IF waterTempF < r.min
                              THEN r.min - waterTempF
                              ELSE waterTempF - r.max
             IN  Max(0, 80 - overshoot)
        ELSE LET distFromOptimal == Abs(waterTempF - r.optimal)
             \* Math.round(20 - dist * 0.75) with dist in tenths
             IN  Max(50, 10 * MathRound(20000 - 75 * distFromOptimal, 1000))

scoreWindDirection(windDir) ==
    IF windDir >= 90 /\ windDir <= 160 THEN 100
    ELSE IF windDir >= 60 /\ windDir <= 200 THEN 70
    ELSE IF windDir >= 200 /\ windDir <= 250 THEN 40
    ELSE IF windDir >= 250 /\ windDir <= 290 THEN 20
    ELSE 0

scoreColdFront(trend, windDir) ==
    LET isNortherly == windDir > 290 \/ windDir < 60
    IN  IF trend = "falling" /\ isNortherly THEN 0
        ELSE IF trend = "rising" /\ isNortherly THEN 40
        ELSE IF trend = "falling" /\ ~isNortherly THEN 60
        ELSE 100

scorePrecipitation(precipIn) ==
    IF precipIn < 10 THEN 50
    ELSE IF precipIn < 25 THEN 30
    ELSE IF precipIn < 50 THEN 10
    ELSE 0

\* A variant that rates calm wind below every other wind
scoreWaterMovementCalmLowest(tides, c) ==
    LET tidalActivity    == Min(40, 10 * Len(tides))
        pressureActivity == IF c.pressureTrend # "stable" THEN 80 ELSE 20
        windMovement     == IF c.windSpeed >= 50 /\ c.windSpeed <= 180 THEN 80
                            ELSE IF c.windSpeed < 50 THEN 10
                            ELSE 20
    IN  Min(200, tidalActivity + pressureActivity + windMovement)

scoreWaterMovement(tides, c) ==
    LET tidalActivity    == Min(40, 10 * Len(tides))
        pressureActivity == IF c.pressureTrend # "stable" THEN 80 ELSE 20
        windMovement     == IF c.windSpeed >= 50 /\ c.windSpeed <= 180 THEN 80
                            ELSE IF c.windSpeed < 50 THEN 40
                            ELSE 20
    IN  Min(200, tidalActivity + pressureActivity + windMovement)

\* A variant whose thresholds belong to the rating below them
getRatingExclusive(score) ==
    IF score > 780 THEN "excellent"
    ELSE IF score > 570 THEN "good"
    ELSE IF score > 370 THEN "fair"
    ELSE "poor"

getRating(score) ==
    IF score >= 780 THEN "excellent"
    ELSE IF score >= 570 THEN "good"
    ELSE IF score >= 370 THEN "fair"
    ELSE "poor"

getRatingColor(rating) ==
    [ excellent |-> "#00c851", good |-> "#ffc107",
      fair |-> "#ff7a00", poor |-> "#f44336" ][rating]

\* fmtHour: `${h % 12 || 12}:00 ${h < 12 ? 'AM' : 'PM'}`
fmtHour(h) ==
    [ display |-> IF h % 12 = 0 THEN 12 ELSE h % 12,
      suffix  |-> IF h < 12 THEN "AM" ELSE "PM" ]

NoTime == [display |-> 0, suffix |-> ""]
GenericBestTime == [text |-> "Dawn and dusk periods", time |-> NoTime, label |-> ""]

\* A variant that looks at the first preferred event only
FirstPrimeOfFirstPreferred(tides, sp, k) ==
    IF \E j \in k..Len(tides) : IsPreferred(tides[j], sp)
    THEN LET f == CHOOSE j \in k..Len(tides) :
                    /\ IsPreferred(tides[j], sp)
                    /\ \A m \in k..(j - 1) : ~IsPreferred(tides[m], sp)
         IN  IF IsDawn(tides[f]) \/ IsDusk(tides[f]) THEN f ELSE 0
    ELSE 0

\* First index >= k of a preferred event inside a prime window, 0 if none
RECURSIVE FirstPrime(_, _, _)
FirstPrime(tides, sp, k) ==
    IF k > Len(tides) THEN 0
    ELSE IF IsPreferred(tides[k], sp) /\ (IsDawn(tides[k]) \/ IsDusk(tides[k]))
         THEN k ELSE FirstPrime(tides, sp, k + 1)

\* Array.prototype.find(isPreferred): first index of a preferred event, 0 if none
RECURSIVE FindPreferred(_, _, _)
FindPreferred(tides, sp, k) ==
    IF k > Len(tides) THEN 0
    ELSE IF IsPreferred(tides[k], sp) THEN k ELSE FindPreferred(tides, sp, k + 1)

getBestTime(tides, sp) ==
    IF Len(tides) = 0 THEN GenericBestTime
    ELSE LET p == FirstPrime(tides, sp, 1)
             f == FindPreferred(tides, sp, 1)
         IN  IF p # 0
             THEN [ text  |-> IF IsDawn(tides[p]) THEN "Dawn tide" ELSE "Dusk tide",
                    time  |-> fmtHour(tides[p].hour), label |-> "" ]
             ELSE IF f # 0
             THEN [ text  |-> "Around", time |-> fmtHour(tides[f].hour),
                    label |-> IF tides[f].type = "H" THEN "high" ELSE "low" ]
             ELSE GenericBestTime

\* spot.species.includes(s)
Includes(list, s) == \E k \in 1..Len(list) : list[k] = s

PrimarySpecies(sp, sel) == IF sel # "all" THEN sel ELSE sp.species[1]

\* A variant that forgets the 'all' filter
ExcludedBug(sp, sel) == ~Includes(sp.species, sel)
Excluded(sp, sel) == sel # "all" /\ ~Includes(sp.species, sel)

SubScores(sp, c, sel) ==
    [ wind          |-> scoreWind(c.windSpeed),
      pressure      |-> scorePressure(c.pressure, c.pressureTrend),
      tides         |-> scoreWaterMovement(c.tides, c),
      temperature   |-> scoreTemperature(c.tempMax, PrimarySpecies(sp, sel)),
      windDirection |-> scoreWindDirection(c.windDir),
      coldFront     |-> scoreColdFront(c.pressureTrend, c.windDir),
      precipitation |-> scorePrecipitation(c.precipitation) ]

\* A variant that adds only the four original sub-scores
TotalFourOnly(scores) ==
    scores.wind + scores.pressure + scores.tides + scores.temperature
Total(scores) ==
    scores.wind + scores.pressure + scores.tides + scores.temperature
    + scores.windDirection + scores.coldFront + scores.precipitation

\* Math.round(Math.min(100, total)), kept in tenths of a point
FinalScore(total) == 10 * MathRound(Min(1000, total), 10)

\* rateSpot: <<>> is null, <<r>> is the SpotResult r
rateSpot(sp, c, sel) ==
    IF Excluded(sp, sel) THEN <<>>
    ELSE LET scores == SubScores(sp, c, sel)
             total  == Total(scores)
             rating == getRating(total)
         IN  << [ score    |-> FinalScore(total),
                  rating   |-> rating,
                  color    |-> getRatingColor(rating),
                  scores   |-> scores,
                  bestTime |-> getBestTime(c.tides, sp) ] >>

----------------------------------------------------------------------------
(* Inputs: payloads of the two feeds *)

MaxDays == 2        \* forecast days in a generated payload
MaxTides == 2       \* tide events in a generated day

PressureKinds == {"flat", "null", "ramp", "rise", "fall", "drop", "gaps", "sparse"}
PressureBases == {10175, 10176}

\* The 24 hourly samples of one day (tenths of hPa), hour h is 0-based
HourlySample(kind, base, h) ==
    CASE kind = "flat"   -> base
      [] kind = "null"   -> NullNumber
      [] kind = "ramp"   -> base + 3 * h
      [] kind = "rise"   -> IF h < 12 THEN base ELSE base + 15
      [] kind = "fall"   -> IF h < 12 THEN base + 16 ELSE base
      [] kind = "drop"   -> IF h < 12 THEN base + 15 ELSE base
      [] kind = "gaps"   -> IF h \in {6, 18} THEN NullNumber ELSE base + (h % 5)
      [] kind = "sparse" -> IF h \in {3, 18} THEN base + 5 + h ELSE NullNumber

DayHourly(ds) == [k \in 1..HoursPerDay |-> HourlySample(ds.kind, ds.base, k - 1)]

DaySpecs == [kind : PressureKinds, base : PressureBases, precip : {NullNumber, 12}]

RECURSIVE FlattenHourly(_)
FlattenHourly(specs) ==
    IF specs = <<>> THEN <<>>
    ELSE DayHourly(Head(specs)) \o FlattenHourly(Tail(specs))

\* An Open-Meteo response for the days described by specs, the first of them
\* dated firstDay; `cut` samples are missing from the end of the hourly array.
MakeResponse(specs, firstDay, cut) ==
    LET n == Len(specs)
    IN  [ daily |->
            [ time                        |-> [i \in 1..n |-> DateToISO(firstDay + i - 1)],
              temperature_2m_max          |-> [i \in 1..n |-> 850 + 13 * i],
              temperature_2m_min          |-> [i \in 1..n |-> 700 - 7 * i],
              precipitation_sum           |-> [i \in 1..n |-> specs[i].precip],
              wind_speed_10m_max          |-> [i \in 1..n |-> 80 + 35 * i],
              wind_direction_10m_dominant |-> [i \in 1..n |-> 90 * i],
              weather_code                |-> [i \in 1..n |-> i] ],
          hourly |->
            [ surface_pressure |->
                LET all == FlattenHourly(specs)
                IN  Slice(all, 0, Max(0, Len(all) - cut)) ] ]

DaySpecSeqs == UNION {[1..n -> DaySpecs] : n \in 0..MaxDays}

WeatherInputs ==
    {MakeResponse(specs, 14, cut) : specs \in DaySpecSeqs, cut \in {0, 7}}

NoPayload == MakeResponse(<<>>, 0, 0)

\* What `await res.json()` of the forecast feed can produce: a payload (one
\* of them with empty daily arrays), a JSON syntax error, or JSON that lacks
\* the `daily` / `hourly` members.
WeatherBodies ==
    { [kind |-> "syntax", payload |-> NoPayload],
      [kind |-> "malformed", payload |-> NoPayload],
      [kind |-> "ok", payload |-> NoPayload],
      [kind |-> "ok", payload |->
          MakeResponse(<<[kind |-> "flat", base |-> 10176, precip |-> 0]>>, 14, 0)],
      [kind |-> "ok", payload |->
          MakeResponse(<<[kind |-> "rise", base |-> 10130, precip |-> NullNumber],
                         [kind |-> "gaps", base |-> 10176, precip |-> 12]>>, 14, 0)] }

\* A NOAA prediction row: t = "YYYY-MM-DD HH:MM", v = decimal text
Prediction(day, hh, mm, v, type) ==
    [ t    |-> DateToISO(day) \o <<" ">> \o TwoDigits(hh) \o <<":">> \o TwoDigits(mm),
      v    |-> v,
      type |-> type ]

PredictionLists ==
    { <<>>,
      << Prediction(14, 6, 30, <<"1", ".", "2">>, "H") >>,
      << Prediction(14, 6, 30, <<"1", ".", "2", "3", "4">>, "H"),
         Prediction(14, 12, 15, <<"-", "0", ".", "1">>, "L"),
         Prediction(15, 0, 5, <<"0", ".", "9">>, "H") >> }

MaxPredictions == 3  \* rows in a generated prediction list

\* Rows of two dates, out of time order and repeatable, for processTides
PredictionRows ==
    { Prediction(day, t[1], t[2], IF type = "H" THEN <<"1", ".", "2">>
                                  ELSE <<"-", "0", ".", "1">>, type) :
        day \in {14, 15}, t \in {<<6, 30>>, <<12, 5>>, <<0, 0>>}, type \in {"H", "L"} }

PredictionInputs == UNION {[1..n -> PredictionRows] : n \in 0..MaxPredictions}

\* What `await res.json()` of the tide feed can produce.  `error` is
\* "undefined" (member absent), "null" or "object"; predictions may be absent.
TideBodies ==
    { [kind |-> "syntax", error |-> "undefined", hasPredictions |-> FALSE, predictions |-> <<>>],
      [kind |-> "null", error |-> "undefined", hasPredictions |-> FALSE, predictions |-> <<>>] }
    \cup
    { [kind |-> "ok", error |-> e, hasPredictions |-> TRUE, predictions |-> l] :
         e \in {"undefined", "null", "object"}, l \in PredictionLists }
    \cup
    { [kind |-> "ok", error |-> e, hasPredictions |-> FALSE, predictions |-> <<>>] :
         e \in {"undefined", "null", "object"} }

HttpStatuses == {"200", "404", "503"}
NetworkMessages == {"Network error", "Failed to fetch"}
\* Values of `new Date()`: a morning in UTC, a morning and an evening in
\* New York, and 19:30 in New York three days before daylight time ends and
\* two days before it begins.
Nows ==
    { [day |-> 0,   minute |-> 600,  zone |-> "UTC"],
      [day |-> 27,  minute |-> 600,  zone |-> "America/New_York"],
      [day |-> 27,  minute |-> 1260, zone |-> "America/New_York"],
      [day |-> 152, minute |-> 1170, zone |-> "America/New_York"],
      [day |-> 279, minute |-> 1170, zone |-> "America/New_York"] }
IdleClock == [day |-> 0, minute |-> 600, zone |-> "UTC"]

----------------------------------------------------------------------------
(* src/api/fetchAll.ts, fetchWeather.ts, fetchTides.ts as a state machine *)

Settled == {"fulfilled", "rejected"}

\* Response.ok: the status is in the range 200-299
ResponseOk(status) == status = "200"

\* A variant that rejects with the latest rejection
AllNextLatest(wS, tS, reason) ==
    IF reason # <<>> THEN <<"rejected", reason>>
    ELSE IF allState # "pending" THEN <<allState, allErr>>
    ELSE IF wS = "fulfilled" /\ tS = "fulfilled" THEN <<"fulfilled", <<>>>>
    ELSE <<"pending", <<>>>>

\* Promise.all([fetchWeather(), fetchTides()]) after a member has settled:
\* it rejects with the first rejection and fulfils once both have fulfilled.
AllNext(wS, tS, reason) ==
    IF allState # "pending" THEN <<allState, allErr>>
    ELSE IF reason # <<>> THEN <<"rejected", reason>>
    ELSE IF wS = "fulfilled" /\ tS = "fulfilled" THEN <<"fulfilled", <<>>>>
    ELSE <<"pending", <<>>>>

\* fetchAll is called: both async functions run up to their first await, so
\* both requests are issued before fetchAll suspends on Promise.all.
FetchAllCall ==
    /\ pc = "idle"
    /\ pc' = "awaiting"
    /\ wState' = "inflight"
    /\ tState' = "inflight"
    /\ wRequests' = wRequests + 1
    /\ tRequests' = tRequests + 1
    /\ allState' = "pending"
    /\ UNCHANGED <<today, wBody, wValue, wErr, tBody, tValue, tErr, allErr,
                   result, fbWeatherCalls, fbTidesCalls>>
    /\ UNCHANGED <<weatherVars, rateVars, pureVars>>

WeatherSettle(state, value, reason) ==
    /\ wState' = state
    /\ wValue' = value
    /\ wErr' = reason
    /\ allState' = AllNext(state, tState, reason)[1]
    /\ allErr' = AllNext(state, tState, reason)[2]

\* A variant that issues the request again after a network failure
WeatherNetworkFailRetry ==
    /\ wState = "inflight"
    /\ wRequests < 3
    /\ wRequests' = wRequests + 1
    /\ UNCHANGED <<today, pc, wState, wBody, wValue, wErr, tState, tBody, tValue,
                   tErr, allState, allErr, result, tRequests, fbWeatherCalls,
                   fbTidesCalls>>
    /\ UNCHANGED <<weatherVars, rateVars, pureVars>>

\* fetchWeather: `await fetch(...)` rejects (network failure)
WeatherNetworkFail ==
    /\ wState = "inflight"
    /\ \E m \in NetworkMessages : WeatherSettle("rejected", <<>>, <<m>>)
    /\ UNCHANGED <<today, pc, wBody, tState, tBody, tValue, tErr, result,
                   wRequests, tRequests, fbWeatherCalls, fbTidesCalls>>
    /\ UNCHANGED <<weatherVars, rateVars, pureVars>>

\* fetchWeather: the response arrives; `if (!res.ok) throw new Error(...)`
WeatherResponse ==
    /\ wState = "inflight"
    /\ \E status \in HttpStatuses :
          IF ResponseOk(status)
          THEN /\ wState' = "decoding"
               /\ UNCHANGED <<wValue, wErr, allState, allErr>>
          ELSE WeatherSettle("rejected", <<>>, <<"Weather API returned ", status>>)
    /\ UNCHANGED <<today, pc, wBody, tState, tBody, tValue, tErr, result,
                   wRequests, tRequests, fbWeatherCalls, fbTidesCalls>>
    /\ UNCHANGED <<weatherVars, rateVars, pureVars>>

\* fetchWeather: `await res.json()` settles, then `return processWeather(data)`
WeatherJson ==
    /\ wState = "decoding"
    /\ \E body \in WeatherBodies :
          /\ wBody' = <<body>>
          /\ CASE body.kind = "syntax" ->
                    WeatherSettle("rejected", <<>>, <<"SyntaxError">>)
               [] body.kind = "malformed" ->
                    WeatherSettle("rejected", <<>>, <<"TypeError">>)
               [] body.kind = "ok" ->
                    WeatherSettle("fulfilled", <<processWeather(body.payload)>>, <<>>)
    /\ UNCHANGED <<today, pc, tState, tBody, tValue, tErr, result,
                   wRequests, tRequests, fbWeatherCalls, fbTidesCalls>>
    /\ UNCHANGED <<weatherVars, rateVars, pureVars>>

TidesSettle(state, value, reason) ==
    /\ tState' = state
    /\ tValue' = value
    /\ tErr' = reason
    /\ allState' = AllNext(wState, state, reason)[1]
    /\ allErr' = AllNext(wState, state, reason)[2]

\* fetchTides: `await fetch(...)` rejects (network failure)
TidesNetworkFail ==
    /\ tState = "inflight"
    /\ \E m \in NetworkMessages : TidesSettle("rejected", <<>>, <<m>>)
    /\ UNCHANGED <<today, pc, wState, wBody, wValue, wErr, tBody, result,
                   wRequests, tRequests, fbWeatherCalls, fbTidesCalls>>
    /\ UNCHANGED <<weatherVars, rateVars, pureVars>>

\* fetchTides: the response arrives; `if (!res.ok) throw new Error(...)`
TidesResponse ==
    /\ tState = "inflight"
    /\ \E status \in HttpStatuses :
          IF ResponseOk(status)
          THEN /\ tState' = "decoding"
               /\ UNCHANGED <<tValue, tErr, allState, allErr>>
          ELSE TidesSettle("rejected", <<>>, <<"NOAA API returned ", status>>)
    /\ UNCHANGED <<today, pc, wState, wBody, wValue, wErr, tBody, result,
                   wRequests, tRequests, fbWeatherCalls, fbTidesCalls>>
    /\ UNCHANGED <<weatherVars, rateVars, pureVars>>

\* `data.error ?? !data.predictions`: the error member when it is neither
\* undefined nor null (an object is truthy), else "no predictions member"
\* A variant that looks at the error member only
SemanticFailureBug(body) == body.error = "object"
SemanticFailure(body) ==
    IF body.error \notin {"undefined", "null"}
    THEN body.error = "object"
    ELSE ~body.hasPredictions

\* fetchTides: `await res.json()` settles; an error payload resolves to
\* fallbackTides(), anything else to processTides(data.predictions)
TidesJson ==
    /\ tState = "decoding"
    /\ \E body \in TideBodies :
          /\ tBody' = <<body>>
          /\ CASE body.kind = "syntax" ->
                    /\ TidesSettle("rejected", <<>>, <<"SyntaxError">>)
                    /\ UNCHANGED fbTidesCalls
               [] body.kind = "null" ->
                    /\ TidesSettle("rejected", <<>>, <<"TypeError">>)
                    /\ UNCHANGED fbTidesCalls
               [] body.kind = "ok" /\ SemanticFailure(body) ->
                    /\ TidesSettle("fulfilled", <<fallbackTides(today)>>, <<>>)
                    /\ fbTidesCalls' = fbTidesCalls + 1
               [] body.kind = "ok" /\ ~SemanticFailure(body) ->
                    /\ TidesSettle("fulfilled", <<processTides(body.predictions)>>, <<>>)
                    /\ UNCHANGED fbTidesCalls
    /\ UNCHANGED <<today, pc, wState, wBody, wValue, wErr, result,
                   wRequests, tRequests, fbWeatherCalls>>
    /\ UNCHANGED <<weatherVars, rateVars, pureVars>>

\* A variant of the try branch that substitutes the tides
TryResultBug(weather, tides) ==
    [weather |-> weather, tides |-> fallbackTides(today), error |-> NullError]
\* `return { weather, tides, error: null }`
TryResult(weather, tides) ==
    [weather |-> weather, tides |-> tides, error |-> NullError]

\* A variant of the catch branch that keeps a forecast that did arrive
CatchResultBug(message) ==
    [ weather |-> IF wState = "fulfilled" THEN wValue[1] ELSE fallbackWeather(today),
      tides   |-> fallbackTides(today),
      error   |-> message ]
\* `return { weather: fallbackWeather(), tides: fallbackTides(), error: message }`
CatchResult(message) ==
    [ weather |-> fallbackWeather(today),
      tides   |-> fallbackTides(today),
      error   |-> message ]

\* A variant that waits for the forecast only and reads the tides as they are
FetchAllResumeBug ==
    /\ pc = "awaiting"
    /\ allState \in Settled \/ wState = "fulfilled"
    /\ pc' = "done"
    /\ IF allState # "rejected"
       THEN /\ result' = <<TryResult(wValue[1],
                              IF tValue = <<>> THEN EmptySchedule ELSE tValue[1])>>
            /\ UNCHANGED <<fbWeatherCalls, fbTidesCalls>>
       ELSE /\ result' = <<CatchResult(allErr)>>
            /\ fbWeatherCalls' = fbWeatherCalls + 1
            /\ fbTidesCalls' = fbTidesCalls + 1
    /\ UNCHANGED <<today, wState, wBody, wValue, wErr, tState, tBody, tValue,
                   tErr, allState, allErr, wRequests, tRequests>>
    /\ UNCHANGED <<weatherVars, rateVars, pureVars>>

\* fetchAll resumes from `await Promise.all(...)`: the try branch returns
\* the two values, the catch branch the two fallbacks and the message.
FetchAllResume ==
    /\ pc = "awaiting"
    /\ allState \in Settled
    /\ pc' = "done"
    /\ IF allState = "fulfilled"
       THEN /\ result' = <<TryResult(wValue[1], tValue[1])>>
            /\ UNCHANGED <<fbWeatherCalls, fbTidesCalls>>
       ELSE /\ result' = <<CatchResult(allErr)>>
            /\ fbWeatherCalls' = fbWeatherCalls + 1
            /\ fbTidesCalls' = fbTidesCalls + 1
    /\ UNCHANGED <<today, wState, wBody, wValue, wErr, tState, tBody, tValue,
                   tErr, allState, allErr, wRequests, tRequests>>
    /\ UNCHANGED <<weatherVars, rateVars, pureVars>>

----------------------------------------------------------------------------
(* Inputs of the scoring engine *)

NumSpecies == 3     \* species a generated location may list

SpeciesOrder == <<"tarpon", "snook", "redfish", "black drum", "speckled trout">>
ListedSpecies == {SpeciesOrder[k] : k \in 1..Min(NumSpecies, Len(SpeciesOrder))}

\* Species lists of a location: non-empty, without repetition
SpeciesLists ==
    {<<a>> : a \in ListedSpecies}
    \cup {p \in ListedSpecies \X ListedSpecies : p[1] # p[2]}

Spots == [species : SpeciesLists, tidePreference : {"incoming", "outgoing"}]
Filters == {"all"} \cup Species

\* tests/engine/fixtures.ts: baseTides
baseTides ==
    << [hour |-> 6,  minute |-> 30, height |-> 1200, type |-> "H"],
       [hour |-> 12, minute |-> 15, height |-> -100, type |-> "L"],
       [hour |-> 18, minute |-> 45, height |-> 900,  type |-> "H"],
       [hour |-> 23, minute |-> 55, height |-> 0,    type |-> "L"] >>

TideLists == {SubSeq(baseTides, 1, n) : n \in 0..Min(MaxTides, Len(baseTides))}

WindSpeeds == {30, 80, 250}
Pressures == {1010, 1025}
Trends == {"rising", "stable", "falling"}
TempMaxes == {605, 725, 728, 780, 850, 1000}
WindDirs == {0, 90, 270}
Precipitations == {0, 30}

ConditionSet ==
    [ windSpeed : WindSpeeds, windDir : WindDirs, pressure : Pressures,
      pressureTrend : Trends, tempMax : TempMaxes, tempMin : {650},
      precipitation : Precipitations, weatherCode : {1}, tides : TideLists ]

DefaultSpot == [species |-> <<"redfish", "snook">>, tidePreference |-> "incoming"]
DefaultConditions ==
    [ windSpeed |-> 80, windDir |-> 90, pressure |-> 1020,
      pressureTrend |-> "rising", tempMax |-> 800, tempMin |-> 680,
      precipitation |-> 0, weatherCode |-> 1, tides |-> baseTides ]

\* Arguments for the engine functions applied on their own
MaxMph == 30        \* highest wind speed, in mph
MaxHPa == 1035      \* highest pressure, in hPa
MaxAirTempF == 120  \* highest air temperature, in degrees F
MaxEvents == 5      \* tide events in a generated list
MaxTotal == 110     \* highest total handed to getRating, in points

ScoreEvents ==
    { [hour |-> e[1], minute |-> 0, height |-> 0, type |-> e[2]] :
        e \in {<<6, "H">>, <<12, "H">>, <<12, "L">>, <<18, "H">>, <<18, "L">>} }

\* Every single event at a whole hour, and every list of up to MaxEvents of
\* the events above
ScoreTideLists ==
    { << [hour |-> h, minute |-> 0, height |-> 0, type |-> t] >> :
        h \in 0..23, t \in {"H", "L"} }
    \cup UNION {[1..n -> ScoreEvents] : n \in 0..MaxEvents}

Call(fn, c, sp, species) ==
    [fn |-> fn, conditions |-> c, spot |-> sp, species |-> species, arg |-> 0]

ScoreCalls ==
    { Call("scoreWind", [DefaultConditions EXCEPT !.windSpeed = w], DefaultSpot, "all") :
        w \in 0..(10 * MaxMph) }
    \cup { Call("scorePressure",
                [DefaultConditions EXCEPT !.pressure = pt[1], !.pressureTrend = pt[2]],
                DefaultSpot, "all") :
             pt \in ((MaxHPa - 50)..MaxHPa) \X Trends }
    \cup { Call("scoreTemperature", [DefaultConditions EXCEPT !.tempMax = ts[1]],
                DefaultSpot, ts[2]) :
             ts \in (300..(10 * MaxAirTempF)) \X Species }
    \cup { [Call("getRating", DefaultConditions, DefaultSpot, "all") EXCEPT !.arg = t] :
             t \in 0..(10 * MaxTotal) }

----------------------------------------------------------------------------
(* Application of the pure functions *)

\* processWeather(data)
ProcessWeather ==
    /\ days = <<>>
    /\ days' = <<processWeather(data)>>
    /\ UNCHANGED <<data, fetchVars, rateVars, pureVars>>

\* FishingEngine.rateSpot(spot, conditions, selectedSpecies)
RateSpot ==
    /\ rated = <<>>
    /\ rated' = <<rateSpot(spot, conditions, selectedSpecies)>>
    /\ UNCHANGED <<spot, conditions, selectedSpecies, fetchVars, weatherVars, pureVars>>

\* WeatherAPI.processTides(predictions)
ProcessTides ==
    /\ tideSchedule = <<>>
    /\ tideSchedule' = <<processTides(noaaPredictions)>>
    /\ UNCHANGED <<noaaPredictions, fetchVars, weatherVars, rateVars, scoreVars,
                   appVars>>

\* One engine function applied to its part of the arguments
Return(fn, value) ==
    /\ called = fn
    /\ returned = <<>>
    /\ returned' = <<value>>
    /\ UNCHANGED <<called, argument, spot, conditions, selectedSpecies, rated, fetchVars,
                   weatherVars, tideVars, appVars>>

ScoreWind == Return("scoreWind", scoreWind(conditions.windSpeed))
ScorePressure ==
    Return("scorePressure", scorePressure(conditions.pressure, conditions.pressureTrend))
ScoreTemperature ==
    Return("scoreTemperature", scoreTemperature(conditions.tempMax, selectedSpecies))
ScoreTides == Return("scoreTides", scoreTides(conditions.tides, spot))
GetBestTime == Return("getBestTime", getBestTime(conditions.tides, spot))
GetRating == Return("getRating", getRating(argument))
RateSpotCall == Return("rateSpot", rateSpot(spot, conditions, selectedSpecies))

----------------------------------------------------------------------------
(* src/context/AppContext.tsx with the handlers the components attach *)

\* Locations a catalog may hold (tests/spots.test.ts: unique ids, a non-empty
\* species list without repetition drawn from the five valid species, a tide
\* preference); coordinates in thousandths of a degree
CatalogSpots ==
    { [id |-> 1, lat |-> 28400, lng |-> -80700,
       species |-> <<"redfish", "snook">>, tidePreference |-> "incoming"],
      [id |-> 2, lat |-> 28100, lng |-> -80600,
       species |-> <<"tarpon">>, tidePreference |-> "outgoing"],
      [id |-> 3, lat |-> 28600, lng |-> -80800,
       species |-> <<"snook", "black drum">>, tidePreference |-> "incoming"] }

\* Catalogs of two locations, in the order of their ids
Catalogs == {c \in CatalogSpots \X CatalogSpots : c[1].id < c[2].id}

\* The filter buttons and the day cards the user clicks
AppFilters == {"all", "snook", "black drum"}
MaxDayIndex == 2    \* index of the last day card clicked

\* SPECIES_OFFSET, in thousandths of a degree
SPECIES_OFFSET ==
    [ tarpon  |-> [lat |-> 4,  lng |-> 0],
      snook   |-> [lat |-> -2, lng |-> 3],
      redfish |-> [lat |-> -2, lng |-> -3] ]

\* utils.ts: buildConditions(day, tides)
buildConditions(day, dayTides) ==
    [ windSpeed     |-> day.windSpeed,
      windDir       |-> day.windDir,
      pressure      |-> day.pressure,
      pressureTrend |-> day.pressureTrend,
      tempMax       |-> day.tempMax,
      tempMin       |-> day.tempMin,
      precipitation |-> day.precipitation,
      weatherCode   |-> day.weatherCode,
      tides         |-> dayTides ]

\* The `conditions` memo: <<>> is null
dayConditions ==
    IF selectedDay + 1 > Len(weatherDays) THEN <<>>
    ELSE LET day == weatherDays[selectedDay + 1]
         IN  << buildConditions(day,
                    IF day.date \in DOMAIN tidesByDate
                    THEN tidesByDate[day.date] ELSE <<>>) >>

\* Specific filter: the entries of the locations from the k-th on
RECURSIVE FilteredEntries(_, _)
FilteredEntries(c, k) ==
    IF k > Len(fishingSpots) THEN <<>>
    ELSE LET sp == fishingSpots[k]
             r  == rateSpot(sp, c, selectedSpecies)
         IN  (IF r = <<>> THEN <<>>
              ELSE << [spot |-> sp, result |-> r[1], species |-> selectedSpecies,
                       lat |-> sp.lat, lng |-> sp.lng] >>)
             \o FilteredEntries(c, k + 1)

\* Filter 'all': the entries of one location for its species from the j-th on
RECURSIVE SpeciesEntries(_, _, _)
SpeciesEntries(sp, c, j) ==
    IF j > Len(sp.species) THEN <<>>
    ELSE LET species == sp.species[j]
             r       == rateSpot(sp, c, species)
         IN  (IF r = <<>> THEN <<>>
              ELSE << [spot |-> sp, result |-> r[1], species |-> species,
                       lat |-> sp.lat + SPECIES_OFFSET[species].lat,
                       lng |-> sp.lng + SPECIES_OFFSET[species].lng] >>)
             \o SpeciesEntries(sp, c, j + 1)

RECURSIVE AllEntries(_, _)
AllEntries(c, k) ==
    IF k > Len(fishingSpots) THEN <<>>
    ELSE SpeciesEntries(fishingSpots[k], c, 1) \o AllEntries(c, k + 1)

\* Destructuring SPECIES_OFFSET[species] throws a TypeError when the table
\* has no entry for a species that a location lists and rateSpot has rated
OffsetThrows ==
    /\ dayConditions # <<>>
    /\ selectedSpecies = "all"
    /\ \E k \in 1..Len(fishingSpots) : \E j \in 1..Len(fishingSpots[k].species) :
          LET species == fishingSpots[k].species[j]
          IN  /\ rateSpot(fishingSpots[k], dayConditions[1], species) # <<>>
              /\ species \notin DOMAIN SPECIES_OFFSET

\* The `scoredSpots` memo, defined when the render does not throw
scoredSpots ==
    IF dayConditions = <<>> THEN <<>>
    ELSE IF selectedSpecies # "all" THEN FilteredEntries(dayConditions[1], 1)
    ELSE AllEntries(dayConditions[1], 1)

\* The provider's subtree is mounted: a render that throws unmounts it
Mounted == fishingSpots # <<>> /\ ~OffsetThrows

\* A variant that reports every outcome as 'ok'
FetchAllThenAlwaysOk ==
    /\ fishingSpots # <<>>
    /\ dataStatus = "loading"
    /\ pc = "done"
    /\ weatherDays' = result[1].weather
    /\ tidesByDate' = result[1].tides
    /\ dataStatus' = "ok"
    /\ UNCHANGED <<fishingSpots, selectedDay, selectedSpot, fetchVars, weatherVars,
                   rateVars, tideVars, scoreVars>>

\* The callback of WeatherAPI.fetchAll().then(...) in the mount effect
FetchAllThen ==
    /\ fishingSpots # <<>>
    /\ dataStatus = "loading"
    /\ pc = "done"
    /\ weatherDays' = result[1].weather
    /\ tidesByDate' = result[1].tides
    /\ dataStatus' = (IF result[1].error # NullError THEN "error" ELSE "ok")
    /\ UNCHANGED <<fishingSpots, selectedDay, selectedSpot, fetchVars, weatherVars,
                   rateVars, tideVars, scoreVars>>

\* Sidebar: a day card is clicked
SelectDay ==
    /\ Mounted
    /\ \E i \in 0..Min(Len(weatherDays) - 1, MaxDayIndex) : selectedDay' = i
    /\ UNCHANGED <<fishingSpots, dataStatus, weatherDays, tidesByDate, selectedSpot,
                   fetchVars, weatherVars, rateVars, tideVars, scoreVars>>

\* Sidebar: a species filter button is chosen
SelectSpecies ==
    /\ Mounted
    /\ \E v \in AppFilters : selectedSpecies' = v
    /\ UNCHANGED <<fishingSpots, dataStatus, weatherDays, tidesByDate, selectedDay,
                   selectedSpot, spot, conditions, rated, fetchVars, weatherVars,
                   tideVars, scoreVars>>

\* FishingMap: a marker of scoredSpots is clicked
MarkerClick ==
    /\ Mounted
    /\ \E k \in 1..Len(scoredSpots) :
          selectedSpot' = << [spot    |-> scoredSpots[k].spot,
                              result  |-> scoredSpots[k].result,
                              species |-> scoredSpots[k].species] >>
    /\ UNCHANGED <<fishingSpots, dataStatus, weatherDays, tidesByDate, selectedDay,
                   fetchVars, weatherVars, rateVars, tideVars, scoreVars>>

\* SpotDrawer: onClose
CloseDrawer ==
    /\ Mounted
    /\ selectedSpot # <<>>
    /\ selectedSpot' = <<>>
    /\ UNCHANGED <<fishingSpots, dataStatus, weatherDays, tidesByDate, selectedDay,
                   fetchVars, weatherVars, rateVars, tideVars, scoreVars>>

----------------------------------------------------------------------------
(* Specifications *)

FetchIdle ==
    /\ pc = "idle"
    /\ wState = "idle" /\ wBody = <<>> /\ wValue = <<>> /\ wErr = <<>>
    /\ tState = "idle" /\ tBody = <<>> /\ tValue = <<>> /\ tErr = <<>>
    /\ allState = "none" /\ allErr = <<>>
    /\ result = <<>>
    /\ wRequests = 0 /\ tRequests = 0
    /\ fbWeatherCalls = 0 /\ fbTidesCalls = 0

WeatherIdle == data = NoPayload /\ days = <<>>

RateIdle ==
    /\ spot = DefaultSpot
    /\ conditions = DefaultConditions
    /\ selectedSpecies = "all"
    /\ rated = <<>>

TidesIdle == noaaPredictions = <<>> /\ tideSchedule = <<>>

ScoreIdle == called = "none" /\ argument = 0 /\ returned = <<>>

\* AppProvider as its useState initial values leave it, before any catalog
AppIdle ==
    /\ fishingSpots = <<>>
    /\ dataStatus = "loading"
    /\ weatherDays = <<>>
    /\ tidesByDate = EmptySchedule
    /\ selectedDay = 0
    /\ selectedSpot = <<>>

PureIdle == TidesIdle /\ ScoreIdle /\ AppIdle

\* fetchAll with its two requests
Init == today \in Nows /\ FetchIdle /\ WeatherIdle /\ RateIdle /\ PureIdle
Next ==
    \/ FetchAllCall
    \/ WeatherNetworkFail
    \/ WeatherResponse
    \/ WeatherJson
    \/ TidesNetworkFail
    \/ TidesResponse
    \/ TidesJson
    \/ FetchAllResume
Spec == Init /\ [][Next]_vars

\* processWeather over generated payloads
InitWeather ==
    /\ today = IdleClock /\ FetchIdle /\ RateIdle /\ PureIdle
    /\ data \in WeatherInputs
    /\ days = <<>>
NextWeather == ProcessWeather
SpecWeather == InitWeather /\ [][NextWeather]_vars

\* rateSpot over generated locations, filters and conditions
InitRate ==
    /\ today = IdleClock /\ FetchIdle /\ WeatherIdle /\ PureIdle
    /\ spot \in Spots
    /\ conditions \in ConditionSet
    /\ selectedSpecies \in Filters
    /\ rated = <<>>
NextRate == RateSpot
SpecRate == InitRate /\ [][NextRate]_vars

\* processTides over generated prediction rows
InitTides ==
    /\ today = IdleClock /\ FetchIdle /\ WeatherIdle /\ RateIdle /\ ScoreIdle
    /\ AppIdle
    /\ noaaPredictions \in PredictionInputs
    /\ tideSchedule = <<>>
NextTides == ProcessTides
SpecTides == InitTides /\ [][NextTides]_vars

\* The arguments of one call, before the function is applied
Invoke(c) ==
    /\ called = c.fn
    /\ conditions = c.conditions
    /\ spot = c.spot
    /\ selectedSpecies = c.species
    /\ argument = c.arg

\* The engine's scoring functions, each over a sweep of its arguments: the
\* calls on numbers, scoreTides and getBestTime over the generated tide lists,
\* and rateSpot over a sweep of the wind under several trends, tide lists,
\* temperatures and filters
InitScore ==
    /\ today = IdleClock /\ FetchIdle /\ WeatherIdle /\ TidesIdle /\ AppIdle
    /\ \/ \E c \in ScoreCalls : Invoke(c)
       \/ \E fn \in {"scoreTides", "getBestTime"}, tl \in ScoreTideLists,
             pref \in {"incoming", "outgoing"} :
             Invoke(Call(fn, [DefaultConditions EXCEPT !.tides = tl],
                         [DefaultSpot EXCEPT !.tidePreference = pref], "all"))
       \/ \E w \in 0..(10 * MaxMph), tr \in Trends, tl \in {<<>>, baseTides},
             t \in {600, 800}, sel \in {"all", "snook"} :
             Invoke(Call("rateSpot",
                         [DefaultConditions EXCEPT !.windSpeed = w,
                                                   !.pressureTrend = tr,
                                                   !.tides = tl, !.tempMax = t],
                         DefaultSpot, sel))
    /\ rated = <<>>
    /\ returned = <<>>
NextScore ==
    \/ ScoreWind
    \/ ScorePressure
    \/ ScoreTemperature
    \/ ScoreTides
    \/ GetBestTime
    \/ GetRating
    \/ RateSpotCall
SpecScore == InitScore /\ [][NextScore]_vars

\* The application: AppProvider mounted over a catalog, its fetchAll call
\* and the user's clicks
InitApp ==
    /\ today = IdleClock /\ FetchIdle /\ WeatherIdle /\ RateIdle /\ TidesIdle
    /\ ScoreIdle
    /\ fishingSpots \in Catalogs
    /\ dataStatus = "loading"
    /\ weatherDays = <<>>
    /\ tidesByDate = EmptySchedule
    /\ selectedDay = 0
    /\ selectedSpot = <<>>
NextApp ==
    \/ Next
    \/ FetchAllThen
    \/ SelectDay
    \/ SelectSpecies
    \/ MarkerClick
    \/ CloseDrawer
SpecApp == InitApp /\ [][NextApp]_vars


----------------------------------------------------------------------------
(* Properties of fetchAll (specification Spec) *)

Returned == result # <<>>
Failed == wState = "rejected" \/ tState = "rejected"

\* The tide body is a successful response carrying an application-level
\* error object, or one without a predictions list
TideSemanticError ==
    /\ tBody # <<>>
    /\ tBody[1].kind = "ok"
    /\ (tBody[1].error = "object" \/ ~tBody[1].hasPredictions)

\* The tide body is a well-formed prediction payload
TideWellFormed ==
    /\ tBody # <<>>
    /\ tBody[1].kind = "ok"
    /\ tBody[1].error # "object"
    /\ tBody[1].hasPredictions

WeatherWellFormed == wBody # <<>> /\ wBody[1].kind = "ok"

\* C1: whenever one of the two fetches has failed, the returned result holds
\* fallback data for both feeds and a non-null error that is the message of a
\* failure; no result pairs a non-null error with live data.
C1_FailureGivesFullFallback ==
    Returned =>
        /\ Failed =>
              /\ result[1].weather = fallbackWeather(today)
              /\ result[1].tides = fallbackTides(today)
              /\ result[1].error # NullError
              /\ result[1].error \in ({wErr, tErr} \ {<<>>})
        /\ result[1].error # NullError =>
              /\ result[1].weather = fallbackWeather(today)
              /\ result[1].tides = fallbackTides(today)
              /\ (wValue # <<>> => result[1].weather # wValue[1])

C1_Witness ==
    /\ Returned
    /\ wState = "rejected"
    /\ tState = "fulfilled"
    /\ result[1].error = <<"Weather API returned ", "503">>
    /\ result[1].tides = fallbackTides(today)

\* C2 as stated: a result is returned only after both requests have settled.
C2_ResultOnlyAfterBothSettled ==
    Returned => wState \in Settled /\ tState \in Settled

\* C2 amended: a result with error = null is returned only after both requests
\* have fulfilled; a fallback result is returned only after at least one
\* request has failed, possibly while the other is still in flight.
C2_ResultAfterJoinOrFirstFailure ==
    Returned =>
        IF result[1].error = NullError
        THEN wState = "fulfilled" /\ tState = "fulfilled"
        ELSE Failed

C2_Witness ==
    /\ Returned
    /\ result[1].error # NullError
    /\ wState = "rejected"
    /\ tState \in {"inflight", "decoding"}

\* C3: a semantic tide failure together with a successful forecast yields the
\* live normalized forecast, fallback tides and error = null.
C3_SemanticTideFailureIsSilent ==
    (Returned /\ TideSemanticError /\ wState = "fulfilled") =>
        /\ result[1].weather = processWeather(wBody[1].payload)
        /\ result[1].tides = fallbackTides(today)
        /\ result[1].error = NullError
        /\ fbWeatherCalls = 0

C3_Witness ==
    /\ Returned
    /\ TideSemanticError
    /\ ~tBody[1].hasPredictions
    /\ tBody[1].error = "undefined"
    /\ wState = "fulfilled"
    /\ Len(result[1].weather) = 2
    /\ result[1].error = NullError

\* C4: when both fetches succeed with well-formed payloads the result is the
\* normalized forecast and the normalized tides with error = null, and no
\* fallback generator has been used.
C4_SuccessReturnsLiveData ==
    (Returned /\ WeatherWellFormed /\ TideWellFormed
        /\ wState = "fulfilled" /\ tState = "fulfilled") =>
        /\ result[1].weather = processWeather(wBody[1].payload)
        /\ result[1].tides = processTides(tBody[1].predictions)
        /\ result[1].error = NullError
        /\ fbWeatherCalls = 0
        /\ fbTidesCalls = 0

C4_Witness ==
    /\ Returned
    /\ WeatherWellFormed /\ TideWellFormed
    /\ Len(tBody[1].predictions) = 3
    /\ Cardinality(DOMAIN result[1].tides) = 2
    /\ Len(result[1].weather) = 2
    /\ result[1].error = NullError

\* C5: within one fetchAll call each feed is requested at most once, also
\* after a failure, and a returned result rests on exactly one request per feed.
C5_SingleAttempt ==
    /\ wRequests <= 1
    /\ tRequests <= 1
    /\ Returned => wRequests = 1 /\ tRequests = 1

C5_Witness ==
    /\ Returned
    /\ result[1].error = <<"Network error">>
    /\ wState = "rejected"
    /\ tState = "rejected"
    /\ wRequests = 1 /\ tRequests = 1

----------------------------------------------------------------------------
(* Properties of rateSpot (specification SpecRate) *)

Rated == rated # <<>> /\ rated[1] # <<>>
TheResult == rated[1][1]

RECURSIVE SumFields(_, _)
SumFields(rec, keys) ==
    IF keys = {} THEN 0
    ELSE LET k == CHOOSE x \in keys : TRUE
         IN  rec[k] + SumFields(rec, keys \ {k})

\* C6: rateSpot returns null iff the filter is a specific species that the
\* location does not list; otherwise the score is a whole number in [0,100].
C6_NullIffFilteredOut ==
    rated # <<>> =>
        /\ (rated[1] = <<>>) <=>
              (/\ selectedSpecies # "all"
               /\ selectedSpecies \notin {spot.species[k] : k \in DOMAIN spot.species})
        /\ rated[1] # <<>> =>
              /\ TheResult.score % 10 = 0
              /\ TheResult.score >= 0
              /\ TheResult.score <= 1000

C6_Witness ==
    /\ Rated
    /\ selectedSpecies # "all"
    /\ Len(spot.species) = 2
    /\ spot.species[2] = selectedSpecies
    /\ TheResult.score = 1000

C8_RatingMatchesScore ==
    Rated => TheResult.rating = getRating(TheResult.score)

\* C9: the score never exceeds the sum of the wind, pressure, tides and
\* temperature sub-scores.
C9_ScoreAtMostFourSubScores ==
    Rated =>
        TheResult.score <= TheResult.scores.wind + TheResult.scores.pressure
                           + TheResult.scores.tides + TheResult.scores.temperature

----------------------------------------------------------------------------
(* Properties of processWeather (specification SpecWeather) *)

Processed == days # <<>>

\* Indices (1-based) of the non-null samples of day i (1-based) that exist
WindowSamples(i) ==
    {k \in (HoursPerDay * (i - 1) + 1)..(HoursPerDay * i) :
        /\ k <= Len(data.hourly.surface_pressure)
        /\ data.hourly.surface_pressure[k] # NullNumber}

RECURSIVE SumAt(_, _)
SumAt(sp, idx) ==
    IF idx = {} THEN 0
    ELSE LET k == CHOOSE x \in idx : TRUE
         IN  sp[k] + SumAt(sp, idx \ {k})

\* C10: day i's pressure is the mean of the non-null samples of its own
\* 24-hour window rounded to the nearest integer, and 1013 when it has none.
C10_PressureIsRoundedWindowMean ==
    Processed =>
        \A i \in 1..Len(days[1]) :
            LET w   == WindowSamples(i)
                sum == SumAt(data.hourly.surface_pressure, w)
                n   == Cardinality(w)
                p   == days[1][i].pressure
            IN  IF n = 0 THEN p = 1013
                \* p - 0.5 <= sum / (10 n) < p + 0.5
                ELSE /\ 20 * n * p - 10 * n <= 2 * sum
                     /\ 2 * sum < 20 * n * p + 10 * n

C10_Witness ==
    /\ Processed
    /\ Len(days[1]) = 2
    /\ WindowSamples(1) = {}
    /\ days[1][1].pressure = 1013
    /\ Cardinality(WindowSamples(2)) \in 1..(HoursPerDay - 1)
    /\ days[1][2].pressure = 1018

\* The sample of hour h (6 or 18) of day i (1-based), or the unrounded mean of
\* the day's non-null samples (1013 without any) when that sample is null or
\* lies past the end of the hourly array; a rational <<num, den>> in tenths.
TrendSample(i, h) ==
    LET sp == data.hourly.surface_pressure
        k  == HoursPerDay * (i - 1) + h + 1
        w  == WindowSamples(i)
    IN  IF k \in w THEN <<sp[k], 1>>
        ELSE IF w = {} THEN <<10130, 1>>
        ELSE <<SumAt(sp, w), Cardinality(w)>>

\* e - m for day i, as numerator over the positive denominator TrendDen(i)
TrendNum(i) ==
    TrendSample(i, 18)[1] * TrendSample(i, 6)[2]
        - TrendSample(i, 6)[1] * TrendSample(i, 18)[2]

TrendDen(i) == TrendSample(i, 18)[2] * TrendSample(i, 6)[2]

\* C11: with m the 06:00 sample and e the 18:00 sample of day i, each replaced
\* by the day's unrounded mean when null or missing, the trend is rising
\* exactly when e - m > 1.5, falling exactly when e - m < -1.5 and stable
\* otherwise, so a difference of exactly 1.5 or -1.5 is stable.
C11_TrendFromMorningEvening ==
    Processed =>
        \A i \in 1..Len(days[1]) :
            LET t == days[1][i].pressureTrend
            IN  /\ (t = "rising")  <=> (TrendNum(i) > 15 * TrendDen(i))
                /\ (t = "falling") <=> (TrendNum(i) < -15 * TrendDen(i))
                /\ (t = "stable")  <=> /\ TrendNum(i) <= 15 * TrendDen(i)
                                       /\ TrendNum(i) >= -15 * TrendDen(i)

\* Day 1 differs by exactly +1.5 and is stable; day 2 lost its 18:00 sample,
\* which the mean replaces, and its small positive difference is stable too.
C11_Witness ==
    /\ Processed
    /\ Len(days[1]) = 2
    /\ TrendNum(1) = 15 * TrendDen(1)
    /\ days[1][1].pressureTrend = "stable"
    /\ HoursPerDay + 19 > Len(data.hourly.surface_pressure)
    /\ TrendDen(2) > 1
    /\ TrendNum(2) > 0
    /\ days[1][2].pressureTrend = "stable"

\* C12: for a payload of N daily entries processWeather returns N records in
\* input order; record i copies date, tempMax, tempMin, windSpeed, windDir and
\* weatherCode from index i of the daily arrays, and its precipitation is the
\* input value, or 0 when the input value is null.
C12_RecordsCopyDailyFields ==
    Processed =>
        /\ Len(days[1]) = Len(data.daily.time)
        /\ \A i \in 1..Len(days[1]) :
              LET r == days[1][i]
                  p == data.daily.precipitation_sum[i]
              IN  /\ r.date = data.daily.time[i]
                  /\ r.tempMax = data.daily.temperature_2m_max[i]
                  /\ r.tempMin = data.daily.temperature_2m_min[i]
                  /\ r.windSpeed = data.daily.wind_speed_10m_max[i]
                  /\ r.windDir = data.daily.wind_direction_10m_dominant[i]
                  /\ r.weatherCode = data.daily.weather_code[i]
                  /\ p = NullNumber => r.precipitation = 0
                  /\ p # NullNumber => r.precipitation = p

\* Two days with different field values, the first with a null precipitation
C12_Witness ==
    /\ Processed
    /\ Len(days[1]) = 2
    /\ data.daily.precipitation_sum = <<NullNumber, 12>>
    /\ days[1][1].precipitation = 0
    /\ days[1][2].precipitation = 12
    /\ days[1][1].date # days[1][2].date
    /\ days[1][1].tempMax # days[1][2].tempMax

----------------------------------------------------------------------------
(* Properties of processTides (specification SpecTides) *)

Grouped == tideSchedule # <<>>

\* Position of the first occurrence of ch in s (1-based), 0 when absent
FirstAt(s, ch) ==
    IF \E j \in 1..Len(s) : s[j] = ch
    THEN CHOOSE j \in 1..Len(s) : s[j] = ch /\ \A m \in 1..(j - 1) : s[m] # ch
    ELSE 0

\* The text of row p before its first space, and the text after it
DateOf(p) == SubSeq(p.t, 1, FirstAt(p.t, " ") - 1)
TimeOf(p) == SubSeq(p.t, FirstAt(p.t, " ") + 1, Len(p.t))

\* The decimal number written by the digit characters s
RECURSIVE Decimal(_)
Decimal(s) ==
    IF s = <<>> THEN 0
    ELSE 10 * Decimal(SubSeq(s, 1, Len(s) - 1)) + DigitVal(s[Len(s)])

\* Positions of the rows of date k in the input, in increasing order
RECURSIVE RowsOf(_, _)
RowsOf(k, n) ==
    IF n = 0 THEN <<>>
    ELSE IF DateOf(noaaPredictions[n]) = k THEN Append(RowsOf(k, n - 1), n)
    ELSE RowsOf(k, n - 1)

\* C13: processTides groups the rows by the text before the first space: the
\* keys are exactly the distinct dates of the input, each key lists exactly the
\* rows of that date in input order (nothing sorted, nothing dropped), the
\* events number as many as the rows, and each event's hour and minute are the
\* integers before and after the first colon of the time, its type unchanged.
C13_GroupedByDateInOrder ==
    Grouped =>
        LET out  == tideSchedule[1]
            n    == Len(noaaPredictions)
        IN  /\ DOMAIN out = {DateOf(noaaPredictions[j]) : j \in 1..n}
            /\ SumSeq([j \in 1..n |->
                    IF \A m \in 1..(j - 1) :
                          DateOf(noaaPredictions[m]) # DateOf(noaaPredictions[j])
                    THEN Len(out[DateOf(noaaPredictions[j])]) ELSE 0]) = n
            /\ \A k \in DOMAIN out :
                  LET rows == RowsOf(k, n)
                  IN  /\ Len(out[k]) = Len(rows)
                      /\ \A j \in 1..Len(rows) :
                            LET p  == noaaPredictions[rows[j]]
                                tm == TimeOf(p)
                                c  == FirstAt(tm, ":")
                            IN  /\ out[k][j].hour = Decimal(SubSeq(tm, 1, c - 1))
                                /\ out[k][j].minute = Decimal(SubSeq(tm, c + 1, Len(tm)))
                                /\ out[k][j].type = p.type

\* Three rows: a date, another date, then the first date again with an earlier
\* time, which stays behind the later one.
C13_Witness ==
    /\ Grouped
    /\ Len(noaaPredictions) = 3
    /\ DateOf(noaaPredictions[1]) = DateOf(noaaPredictions[3])
    /\ DateOf(noaaPredictions[1]) # DateOf(noaaPredictions[2])
    /\ LET l == tideSchedule[1][DateOf(noaaPredictions[1])]
       IN  /\ Len(l) = 2
           /\ l[1].hour = 12 /\ l[1].minute = 5
           /\ l[2].hour = 6 /\ l[2].minute = 30

----------------------------------------------------------------------------
(* Properties of the fallback data (specification Spec) *)

FallbackReturned == Returned /\ result[1].error # NullError

\* C14: the fallback tide schedule has exactly 7 date keys, and every date's
\* list has between 1 and 4 events, each of type H or L with an integer hour
\* in [0, 24).
C14_FallbackTidesOnePerDay ==
    FallbackReturned =>
        LET s == result[1].tides
        IN  /\ Cardinality(DOMAIN s) = 7
            /\ \A k \in DOMAIN s :
                  /\ Len(s[k]) \in 1..4
                  /\ \A j \in 1..Len(s[k]) :
                        /\ s[k][j].type \in {"H", "L"}
                        /\ s[k][j].hour \in 0..23

\* C15: the fallback forecast has 7 records with 7 distinct dates, the first
\* the date of now and each next one the calendar day after the previous one,
\* and the fallback tide schedule has exactly one key for each of these dates.
C15_FallbackDatesConsecutive ==
    FallbackReturned =>
        LET w == result[1].weather
        IN  /\ Len(w) = 7
            /\ Cardinality({w[i].date : i \in 1..Len(w)}) = 7
            /\ w[1].date = toISODate(today)
            /\ \A i \in 1..(Len(w) - 1) :
                  \E n \in 0..363 : /\ w[i].date = DateToISO(n)
                                     /\ w[i + 1].date = DateToISO(n + 1)
            /\ DOMAIN result[1].tides = {w[i].date : i \in 1..Len(w)}

----------------------------------------------------------------------------
(* Properties of the scoring functions (specification SpecScore) *)

Applied(fn) == called = fn /\ returned # <<>>

\* C16: scoreWind is 25 below 5 mph, 20 below 10, 13 below 15, 6 below 20,
\* 2 below 25 and 0 from 25 mph on; so it lies in [0, 25], no lower speed
\* scores less, scoreWind(0) = 25 and scoreWind(25) = 0.
C16_WindScoreSteps ==
    Applied("scoreWind") =>
        LET mph == conditions.windSpeed
            v   == returned[1]
        IN  /\ mph < 50 => v = 250
            /\ mph >= 50 /\ mph < 100 => v = 200
            /\ mph >= 100 /\ mph < 150 => v = 130
            /\ mph >= 150 /\ mph < 200 => v = 60
            /\ mph >= 200 /\ mph < 250 => v = 20
            /\ mph >= 250 => v = 0
            /\ v >= 0 /\ v <= 250
            /\ \A slower \in 0..mph : scoreWind(slower) >= v
            /\ mph = 0 => v = 250
            /\ mph = 250 => v = 0

C16_Witness ==
    /\ Applied("scoreWind")
    /\ conditions.windSpeed = 250
    /\ returned[1] = 0

\* C17: scorePressure is base + adj clamped to [0, 25], with base 21, 17, 11,
\* 6, 2 for hPa >= 1023, >= 1015, >= 1008, >= 1000, lower, and adj +4, +1, -6
\* for rising, stable, falling; so it lies in [0, 25] and at a fixed hPa
\* falling scores at most stable, which scores at most rising.
C17_PressureScoreClamped ==
    Applied("scorePressure") =>
        LET hPa   == conditions.pressure
            trend == conditions.pressureTrend
            v     == returned[1]
            base  == CASE hPa >= 1023 -> 210
                       [] hPa >= 1015 /\ hPa < 1023 -> 170
                       [] hPa >= 1008 /\ hPa < 1015 -> 110
                       [] hPa >= 1000 /\ hPa < 1008 -> 60
                       [] hPa < 1000 -> 20
            adj   == CASE trend = "rising" -> 40
                       [] trend = "stable" -> 10
                       [] trend = "falling" -> -60
        IN  /\ v = (IF base + adj < 0 THEN 0
                    ELSE IF base + adj > 250 THEN 250 ELSE base + adj)
            /\ v >= 0 /\ v <= 250
            /\ trend = "falling" => v <= scorePressure(hPa, "stable")
            /\ trend = "stable" => v <= scorePressure(hPa, "rising")
            /\ hPa = 1023 /\ trend = "rising" => v = 250
            /\ hPa = 990 /\ trend = "falling" => v = 0

C17_Witness ==
    /\ Applied("scorePressure")
    /\ conditions.pressure = 990
    /\ conditions.pressureTrend = "falling"
    /\ returned[1] = 0

\* C18: for every air temperature and species scoreTemperature lies in
\* [0, 20], and it is exactly 20 when the air temperature is the species'
\* optimal water temperature plus 3 degrees F.
C18_TemperatureScoreRange ==
    Applied("scoreTemperature") =>
        /\ returned[1] >= 0
        /\ returned[1] <= 200
        /\ conditions.tempMax = ranges[selectedSpecies].optimal + 30
              => returned[1] = 200

C18_Witness ==
    /\ Applied("scoreTemperature")
    /\ selectedSpecies = "speckled trout"
    /\ conditions.tempMax = 710
    /\ returned[1] = 200

\* Indices of the events of the location's preferred type, and of those among
\* them whose hour lies in 5..9 or 16..20
PreferredAt ==
    {k \in 1..Len(conditions.tides) :
        conditions.tides[k].type =
            (IF spot.tidePreference = "incoming" THEN "H" ELSE "L")}
PrimeAt ==
    {k \in PreferredAt : conditions.tides[k].hour \in (5..9) \cup (16..20)}

Least(S) == CHOOSE k \in S : \A j \in S : k <= j

\* C19: getBestTime gives the generic text when the day has no event of the
\* preferred type; otherwise the Dawn or Dusk label of the first preferred
\* event inside a window, also when an earlier preferred event lies outside;
\* otherwise 'Around <time> (<high|low> tide)' of the first preferred event.
C19_BestTimeOfFirstPrimeEvent ==
    Applied("getBestTime") =>
        LET v == returned[1]
        IN  IF PreferredAt = {}
            THEN v.text = "Dawn and dusk periods" /\ v.label = ""
            ELSE IF PrimeAt # {}
            THEN LET h == conditions.tides[Least(PrimeAt)].hour
                 IN  /\ v.text = (IF h \in 5..9 THEN "Dawn tide" ELSE "Dusk tide")
                     /\ v.time = fmtHour(h)
            ELSE LET e == conditions.tides[Least(PreferredAt)]
                 IN  /\ v.text = "Around"
                     /\ v.time = fmtHour(e.hour)
                     /\ v.label = (IF e.type = "H" THEN "high" ELSE "low")

\* The first preferred event is at noon, a later one at 18:00
C19_Witness ==
    /\ Applied("getBestTime")
    /\ PrimeAt # {}
    /\ Least(PreferredAt) < Least(PrimeAt)
    /\ returned[1].text = "Dusk tide"
    /\ returned[1].time = [display |-> 6, suffix |-> "PM"]

\* C20: scoreTides is 14 for no events; otherwise min(30, min(8, 2 * count)
\* + (12 with an event of the preferred type, else 5) + (10 with a preferred
\* event at hour 5..9 or 16..20, else 0)); it lies in [0, 30]; and a single
\* event of the preferred type scores more than the same event of the other
\* type.
C20_TideScoreFormula ==
    Applied("scoreTides") =>
        LET n    == Len(conditions.tides)
            v    == returned[1]
            sum  == (IF 2 * n < 8 THEN 20 * n ELSE 80)
                    + (IF PreferredAt # {} THEN 120 ELSE 50)
                    + (IF PrimeAt # {} THEN 100 ELSE 0)
        IN  /\ n = 0 => v = 140
            /\ n > 0 => v = (IF sum < 300 THEN sum ELSE 300)
            /\ v >= 0 /\ v <= 300
            /\ n = 1 /\ PreferredAt = {1} =>
                  v > scoreTides(
                        << [conditions.tides[1] EXCEPT
                              !.type = IF @ = "H" THEN "L" ELSE "H"] >>, spot)

\* Five events, one of them preferred and none in a window: 8 + 12
C20_Witness ==
    /\ Applied("scoreTides")
    /\ Len(conditions.tides) = 5
    /\ PreferredAt # {}
    /\ PrimeAt = {}
    /\ returned[1] = 200

\* Position of a rating in the order poor < fair < good < excellent
RatingRank(r) ==
    CASE r = "poor" -> 0 [] r = "fair" -> 1 [] r = "good" -> 2 [] r = "excellent" -> 3

\* C22: getRating maps s to excellent iff s >= 78, good iff 57 <= s < 78,
\* fair iff 37 <= s < 57 and poor iff s < 37, and no lower score gets a
\* higher rating.
C22_RatingThresholds ==
    Applied("getRating") =>
        LET s == argument
            r == returned[1]
        IN  /\ r \in {"poor", "fair", "good", "excellent"}
            /\ (r = "excellent") <=> (s >= 780)
            /\ (r = "good") <=> (s >= 570 /\ s < 780)
            /\ (r = "fair") <=> (s >= 370 /\ s < 570)
            /\ (r = "poor") <=> (s < 370)
            /\ \A lower \in 0..s : RatingRank(getRating(lower)) <= RatingRank(r)

C22_Witness ==
    /\ Applied("getRating")
    /\ argument = 780
    /\ returned[1] = "excellent"

\* C23: for every species scoreTemperature never increases as the air
\* temperature moves away from the optimal point (optimal water temperature
\* plus 3 degrees F): a temperature between the optimum and the one scored
\* never scores less, also across the comfort bounds.
C23_TemperatureFallsAwayFromOptimum ==
    Applied("scoreTemperature") =>
        LET opt == ranges[selectedSpecies].optimal + 30
            t2  == conditions.tempMax
        IN  \A t1 \in Min(opt, t2)..Max(opt, t2) :
                scoreTemperature(t1, selectedSpecies) >= returned[1]

\* C24 as stated: appending one more event to any list, the empty one
\* included, never lowers the tide score.
C24_AppendNeverLowers ==
    Applied("scoreTides") =>
        \A e \in ScoreEvents :
            scoreTides(Append(conditions.tides, e), spot) >= returned[1]

\* C24: appending one more event to a non-empty list never lowers the tide
\* score; a single event scores 7, 14 or 24 against the 14 of the empty list.
C24_AppendNeverLowersNonEmpty ==
    Applied("scoreTides") =>
        /\ Len(conditions.tides) > 0 =>
              \A e \in ScoreEvents :
                  scoreTides(Append(conditions.tides, e), spot) >= returned[1]
        /\ Len(conditions.tides) = 0 =>
              /\ returned[1] = 140
              /\ \A e \in ScoreEvents :
                    scoreTides(<<e>>, spot) \in {70, 140, 240}

\* A list without a prime preferred event, scored below what one more event
\* brings
C24_Witness ==
    /\ Applied("scoreTides")
    /\ Len(conditions.tides) = 2
    /\ PrimeAt = {}
    /\ returned[1] = 90
    /\ \E e \in ScoreEvents :
          scoreTides(Append(conditions.tides, e), spot) = 280

----------------------------------------------------------------------------
(* Further properties of fetchAll (specification Spec) *)

\* C25: fetchAll never rejects and never yields a partial result: once it is
\* done it has fulfilled with a result whose forecast is wholly the normalized
\* live forecast or wholly the fallback forecast, and whose tide schedule is
\* wholly the value fetchTides fulfilled with or wholly the fallback schedule.
C25_AlwaysFullResult ==
    /\ (pc = "done") <=> Returned
    /\ Returned =>
          /\ \/ result[1].weather = fallbackWeather(today)
             \/ /\ wState = "fulfilled"
                /\ wBody[1].kind = "ok"
                /\ result[1].weather = processWeather(wBody[1].payload)
          /\ \/ result[1].tides = fallbackTides(today)
             \/ /\ tState = "fulfilled"
                /\ tBody[1].kind = "ok"
                /\ result[1].tides = processTides(tBody[1].predictions)
          /\ (result[1].tides = EmptySchedule) =>
                (tState = "fulfilled" /\ tBody[1].predictions = <<>>)

\* The forecast body could not be normalized while the tides were still due
C25_Witness ==
    /\ Returned
    /\ wBody # <<>>
    /\ wBody[1].kind = "malformed"
    /\ tState # "fulfilled"
    /\ result[1].weather = fallbackWeather(today)
    /\ result[1].tides = fallbackTides(today)

\* C26: the reason fetchAll's catch branch receives is the message of the
\* failure that happened first, whichever feed it is; a later failure leaves
\* it alone, the returned error is that message, and nothing that settles
\* after the result was produced changes the result.
C26_ErrorIsFirstFailure ==
    [][ /\ (wErr = <<>> /\ wErr' # <<>>) =>
              allErr' = (IF tErr = <<>> THEN wErr' ELSE tErr)
        /\ (tErr = <<>> /\ tErr' # <<>>) =>
              allErr' = (IF wErr = <<>> THEN tErr' ELSE wErr)
        /\ (result = <<>> /\ result' # <<>>) => result'[1].error = allErr
        /\ (result # <<>>) => result' = result ]_vars

\* Both feeds have failed with different messages, the tide feed first
C26_Witness ==
    /\ Returned
    /\ wErr # <<>>
    /\ tErr # <<>>
    /\ wErr # tErr
    /\ result[1].error = tErr

\* C28: in a fallback result, for every day index d the list stored under
\* the date of day d has exactly four events, high, low, high, low, at the
\* hours floor(((6 + (0.83 d mod 24)) mod 24 + 6 k) mod 24), k = 0..3.
C28_FourEventsPerDayIndex ==
    FallbackReturned =>
        \A d \in 0..(FORECAST_DAYS - 1) :
            LET list == result[1].tides[toISODate(SetDate(today, d))]
                first == (600 + ((83 * d) % 2400)) % 2400
            IN  /\ Len(list) = 4
                /\ \A k \in 0..3 :
                      /\ list[k + 1].type = (IF k % 2 = 0 THEN "H" ELSE "L")
                      /\ list[k + 1].hour = ((first + 600 * k) % 2400) \div 100

----------------------------------------------------------------------------
(* Properties of rateSpot as a function of the wind (specification SpecScore) *)

\* C29: with the location, the species filter and every other condition
\* fixed, rateSpot's score at a wind speed is at most its score at every
\* lower wind speed.
C29_ScoreNonIncreasingInWind ==
    (Applied("rateSpot") /\ returned[1] # <<>>) =>
        \A w \in 0..conditions.windSpeed :
            LET lower == rateSpot(spot, [conditions EXCEPT !.windSpeed = w],
                                  selectedSpecies)
            IN  /\ lower # <<>>
                /\ lower[1].score >= returned[1][1].score

\* A 5 mph wind: the water-movement term is above the one of a calm wind and
\* the score is still below the one of a calm wind, and not capped
C29_Witness ==
    /\ Applied("rateSpot")
    /\ returned[1] # <<>>
    /\ conditions.windSpeed = 50
    /\ returned[1][1].score < 1000
    /\ LET calm == rateSpot(spot, [conditions EXCEPT !.windSpeed = 49], selectedSpecies)
       IN  /\ calm[1].scores.tides < returned[1][1].scores.tides
           /\ calm[1].score > returned[1][1].score

----------------------------------------------------------------------------
(* Properties of the application (specification SpecApp) *)

\* Entries of the scored set for one location and one species
EntriesFor(sp, species) ==
    {k \in 1..Len(scoredSpots) :
        scoredSpots[k].spot = sp /\ scoredSpots[k].species = species}

\* C21: once a day's conditions exist, the scored set is produced; with
\* filter 'all' it has exactly one entry per location and listed species (as
\* many entries as the species lists have members), each with the temperature
\* sub-score of that species; with a specific filter it has exactly one entry
\* per location listing that species and none for any other location.
C21_OneEntryPerPair ==
    dayConditions # <<>> =>
        /\ ~OffsetThrows
        /\ \A k \in 1..Len(fishingSpots) :
              LET sp == fishingSpots[k]
              IN  IF selectedSpecies = "all"
                  THEN \A j \in 1..Len(sp.species) :
                          /\ Cardinality(EntriesFor(sp, sp.species[j])) = 1
                          /\ \A e \in EntriesFor(sp, sp.species[j]) :
                                scoredSpots[e].result.scores.temperature =
                                  scoreTemperature(dayConditions[1].tempMax,
                                                   sp.species[j])
                  ELSE /\ Cardinality(EntriesFor(sp, selectedSpecies)) =
                            (IF Includes(sp.species, selectedSpecies) THEN 1 ELSE 0)
                       /\ \A e \in 1..Len(scoredSpots) :
                            scoredSpots[e].spot = sp =>
                              scoredSpots[e].species = selectedSpecies
        /\ Len(scoredSpots) =
              (IF selectedSpecies = "all"
               THEN Len(fishingSpots[1].species) + Len(fishingSpots[2].species)
               ELSE Cardinality({k \in 1..Len(fishingSpots) :
                                   Includes(fishingSpots[k].species, selectedSpecies)}))

\* The status leaves 'loading' once, when fetchAll has resolved, for 'error'
\* if the result carries an error and for 'ok' otherwise, and never changes
\* again
StatusStep ==
    /\ (dataStatus # "loading") => dataStatus' = dataStatus
    /\ (dataStatus = "loading" /\ dataStatus' # "loading") =>
          /\ pc = "done"
          /\ dataStatus' = (IF result[1].error # NullError THEN "error" ELSE "ok")
          /\ weatherDays' = result[1].weather
          /\ tidesByDate' = result[1].tides

\* 'error' means that a fetch failed and the whole fallback data is shown
StatusMeaning ==
    /\ dataStatus \in {"loading", "ok", "error"}
    /\ (dataStatus = "loading") =>
          (weatherDays = <<>> /\ tidesByDate = EmptySchedule)
    /\ (dataStatus # "loading") =>
          /\ Returned
          /\ (dataStatus = "error") <=> (result[1].error # NullError)
          /\ (dataStatus = "error") <=>
                /\ Failed
                /\ weatherDays = fallbackWeather(today)
                /\ tidesByDate = fallbackTides(today)

C30_SelectionIsCurrent ==
    (selectedSpot # <<>>) =>
        /\ ~OffsetThrows
        /\ \E k \in EntriesFor(selectedSpot[1].spot, selectedSpot[1].species) :
              scoredSpots[k].result = selectedSpot[1].result

====
